---------------------------- MODULE Spec2Model ----------------------------
(***************************************************************************)
(* A model of smithy, a read-only web viewer for git repositories.         *)
(*                                                                         *)
(* The server is a single catch-all handler (main.go) that hands every     *)
(* request to Dispatch, which matches the request path against the ordered *)
(* route list of CompileRoutes and calls the view of the first route that  *)
(* matches.  The views read the loaded repositories and answer with a      *)
(* page, a redirect or one of the two failure pages.                       *)
(*                                                                         *)
(* Strings are sequences of one-character strings, so that the regular     *)
(* expressions of CompileRoutes are matched character by character.        *)
(***************************************************************************)
EXTENDS Integers, Sequences, FiniteSets, TLC

VARIABLES
    repos,      \* the loaded repository table (SmithyConfig), fixed at startup
    pc,         \* "idle": no request in flight; "responded": urlPath was answered
    urlPath,    \* ctx.Request.URL.String() of the request last dispatched
    calls,      \* the views Dispatch invoked for urlPath, with their urlParts
    response,   \* what was written to the client for urlPath
    referer,    \* the path whose redirect the client followed to urlPath, or <<>>
    it,         \* a reference iterator handed to ReferenceCollector
    collected   \* what ReferenceCollector returned for it, once it was called

vars == <<repos, pc, urlPath, calls, response, referer, it, collected>>

---------------------------------------------------------------------------
(* Characters and words                                                    *)

Lower == {"a","b","c","d","e","f","g","h","i","j","k","l","m",
          "n","o","p","q","r","s","t","u","v","w","x","y","z"}
Upper == {"A","B","C","D","E","F","G","H","I","J","K","L","M",
          "N","O","P","Q","R","S","T","U","V","W","X","Y","Z"}
Digit == {"0","1","2","3","4","5","6","7","8","9"}
HexDigit == Digit \cup {"a","b","c","d","e","f"}

DigitChar == <<"0","1","2","3","4","5","6","7","8","9">>

Slash    == <<"/">>
wGit     == <<"g","i","t">>
wStatic  == <<"s","t","a","t","i","c">>
wRefs    == <<"r","e","f","s">>
wLog     == <<"l","o","g">>
wTree    == <<"t","r","e","e">>
wCommit  == <<"c","o","m","m","i","t">>
wPatch   == <<"p","a","t","c","h">>
wMain    == <<"m","a","i","n">>
wMaster  == <<"m","a","s","t","e","r">>

\* strings.HasPrefix
HasPrefix(s, prefix) ==
    /\ Len(s) >= Len(prefix)
    /\ SubSeq(s, 1, Len(prefix)) = prefix

\* strings.Join(segs, "/") with a leading "/"
RECURSIVE JoinPath(_)
JoinPath(segs) ==
    IF segs = <<>> THEN <<>>
    ELSE Slash \o Head(segs) \o JoinPath(Tail(segs))

---------------------------------------------------------------------------
(* Regular expressions (Go regexp, leftmost-first matching).  A pattern is *)
(* a sequence of elements: "bol" (^), "eol" ($), "lit" (a run of literal   *)
(* characters), "any" (.), and "group" (a capture group around one         *)
(* character class repeated at least min times, greedily).                 *)

Elem(kind, str, cls, min) == [kind |-> kind, str |-> str, cls |-> cls, min |-> min]

Bol == <<Elem("bol", <<>>, "", 0)>>
Eol == <<Elem("eol", <<>>, "", 0)>>
AnyChar == <<Elem("any", <<>>, "", 0)>>
Lit(w) == <<Elem("lit", w, "", 0)>>
Group(cls, min) == <<Elem("group", <<>>, cls, min)>>

\* [a-zA-Z0-9\-~\.]
LabelChars == Lower \cup Upper \cup Digit \cup {"-", "~", "."}

\* [a-z0-9]
LowerAlnumChars == Lower \cup Digit

\* the character classes used by CompileRoutes
InClass(cls, c) ==
    CASE cls = "label"    -> c \in LabelChars
      [] cls = "lowalnum" -> c \in LowerAlnumChars
      [] cls = "any"      -> c # "\n"

\* the length of the longest run of class characters starting at pos
RECURSIVE Run(_, _, _)
Run(cls, text, pos) ==
    IF pos <= Len(text) /\ InClass(cls, text[pos])
    THEN 1 + Run(cls, text, pos + 1)
    ELSE 0

NoMatch == [ok |-> FALSE, end |-> 0, caps |-> <<>>]

\* backtracking match of pat[k..] at text[pos..]; a group tries its longest
\* repetition first (greedy), then shorter ones
RECURSIVE MatchHere(_, _, _, _), TryGroup(_, _, _, _, _)
MatchHere(pat, k, text, pos) ==
    IF k > Len(pat) THEN [ok |-> TRUE, end |-> pos, caps |-> <<>>]
    ELSE LET e == pat[k] IN
      CASE e.kind = "bol" ->
             IF pos = 1 THEN MatchHere(pat, k + 1, text, pos) ELSE NoMatch
        [] e.kind = "eol" ->
             IF pos = Len(text) + 1 THEN MatchHere(pat, k + 1, text, pos) ELSE NoMatch
        [] e.kind = "lit" ->
             IF /\ pos + Len(e.str) - 1 <= Len(text)
                /\ SubSeq(text, pos, pos + Len(e.str) - 1) = e.str
             THEN MatchHere(pat, k + 1, text, pos + Len(e.str)) ELSE NoMatch
        [] e.kind = "any" ->
             IF pos <= Len(text) /\ InClass("any", text[pos])
             THEN MatchHere(pat, k + 1, text, pos + 1) ELSE NoMatch
        [] e.kind = "group" ->
             TryGroup(pat, k, text, pos, Run(e.cls, text, pos))
TryGroup(pat, k, text, pos, n) ==
    IF n < pat[k].min THEN NoMatch
    ELSE LET r == MatchHere(pat, k + 1, text, pos + n) IN
         IF r.ok
         THEN [ok |-> TRUE, end |-> r.end,
               caps |-> <<SubSeq(text, pos, pos + n - 1)>> \o r.caps]
         ELSE TryGroup(pat, k, text, pos, n - 1)

\* the leftmost match: the first start position at which the pattern matches;
\* a pattern that begins with ^ can only match at the start of the text
RECURSIVE Search(_, _, _)
Search(pat, text, start) ==
    IF start > Len(text) + 1 THEN NoMatch
    ELSE IF start > 1 /\ pat[1].kind = "bol" THEN NoMatch
    ELSE LET r == MatchHere(pat, 1, text, start) IN
         IF r.ok THEN [r EXCEPT !.caps = <<SubSeq(text, start, r.end - 1)>> \o r.caps]
         ELSE Search(pat, text, start + 1)

\* regexp.MatchString
MatchString(pat, text) == Search(pat, text, 1).ok

\* regexp.FindStringSubmatch: the whole match, then the groups in index order
FindStringSubmatch(pat, text) == Search(pat, text, 1).caps

---------------------------------------------------------------------------
(* CompileRoutes                                                           *)

label == Group("label", 1)

indexUrl       == Bol \o Lit(Slash) \o Eol
repoGitUrl     == Bol \o Lit(Slash \o wGit \o Slash) \o label
repoIndexUrl   == Bol \o Lit(Slash) \o label \o Eol
refsUrl        == Bol \o Lit(Slash) \o label \o Lit(Slash \o wRefs) \o Eol
logDefaultUrl  == Bol \o Lit(Slash) \o label \o Lit(Slash \o wLog) \o Eol
logUrl         == Bol \o Lit(Slash) \o label \o Lit(Slash \o wLog \o Slash) \o label \o Eol
commitUrl      == Bol \o Lit(Slash) \o label \o Lit(Slash \o wCommit \o Slash)
                      \o Group("lowalnum", 1) \o Eol
patchUrl       == Bol \o Lit(Slash) \o label \o Lit(Slash \o wCommit \o Slash)
                      \o Group("lowalnum", 1) \o AnyChar \o Lit(wPatch)
treeRootUrl    == Bol \o Lit(Slash) \o label \o Lit(Slash \o wTree) \o Eol
treeRootRefUrl == Bol \o Lit(Slash) \o label \o Lit(Slash \o wTree \o Slash) \o label \o Eol
treeRootRefPathUrl ==
    Bol \o Lit(Slash) \o label \o Lit(Slash \o wTree \o Slash) \o label
        \o Lit(Slash) \o Group("any", 0) \o Eol

Route(pattern, view) == [Pattern |-> pattern, View |-> view]

CompileRoutes == <<
    Route(indexUrl, "IndexView"),
    Route(repoIndexUrl, "RepoIndexView"),
    Route(repoGitUrl, "RepoGitView"),
    Route(refsUrl, "RefsView"),
    Route(logDefaultUrl, "LogViewDefault"),
    Route(logUrl, "LogView"),
    Route(commitUrl, "CommitView"),
    Route(patchUrl, "PatchView"),
    Route(treeRootUrl, "TreeView"),
    Route(treeRootRefUrl, "TreeView"),
    Route(treeRootRefPathUrl, "TreeView") >>

---------------------------------------------------------------------------
(* The object store of a loaded repository.                                *)
(*                                                                         *)
(* A repository is [n, main, master, fault]: its history is the commits    *)
(* 1..n, commit 1 being the root; branch "main" (if present) points at     *)
(* commit n, branch "master" (if present) at the commit before it, and the *)
(* tag "v1.0" at the root commit.  Committer time grows with the commit    *)
(* number.  fault names the one object-store operation that fails in this  *)
(* repository, or "none".                                                  *)

PAGE_SIZE == 100

\* the longest history of a loaded repository
MaxCommits == 150

\* hash size in bytes (two hex characters each); git's is 20
HashBytes == 2

Faults == {"none", "branches", "tags", "tree", "blob", "log", "logNext",
           "parent", "diff", "format", "stats"}

HistoryLens == {1, 4, PAGE_SIZE - 1, PAGE_SIZE, PAGE_SIZE + 1, MaxCommits}

Min(a, b) == IF a < b THEN a ELSE b
Max(a, b) == IF a > b THEN a ELSE b

RECURSIVE Pow(_, _)
Pow(b, e) == IF e = 0 THEN 1 ELSE b * Pow(b, e - 1)

\* commit.Hash.String(): the commit number in decimal digits, zero-padded
Hash(k) == [i \in 1..(2 * HashBytes) |->
               DigitChar[((k \div Pow(10, 2 * HashBytes - i)) % 10) + 1]]

\* the number of leading bytes (pairs of hex digits) hex.DecodeString decodes
RECURSIVE HexPairs(_, _)
HexPairs(s, i) ==
    IF 2 * i + 2 <= Len(s) /\ s[2 * i + 1] \in HexDigit /\ s[2 * i + 2] \in HexDigit
    THEN 1 + HexPairs(s, i + 1)
    ELSE 0

\* plumbing.NewHash: the decoded bytes copied into a zeroed hash, the decoding
\* error dropped
NewHash(s) ==
    LET nb == Min(HexPairs(s, 0), HashBytes) IN
    [i \in 1..(2 * HashBytes) |-> IF i <= 2 * nb THEN s[i] ELSE "0"]

\* the commit number a hash names, 0 if it names no commit of the repository
RECURSIVE HashValue(_, _)
HashValue(h, i) ==
    IF i = 0 THEN 0
    ELSE IF h[i] \notin Digit THEN -1
    ELSE LET rest == HashValue(h, i - 1)
             d == CHOOSE j \in 0..9 : DigitChar[j + 1] = h[i]
         IN IF rest < 0 THEN -1 ELSE 10 * rest + d

\* Repository.CommitObject
CommitObject(repo, h) ==
    LET k == HashValue(h, Len(h)) IN
    IF k >= 1 /\ k <= repo.n THEN [ok |-> TRUE, commit |-> k]
    ELSE [ok |-> FALSE, commit |-> 0]

\* the parents of commit k, the first parent first: every third and fourth
\* commit is a merge
Parents(k) ==
    IF k = 1 THEN <<>>
    ELSE IF k % 4 = 3 THEN <<k - 1, k - 2>>
    ELSE IF k % 4 = 0 THEN <<k - 2, k - 1>>
    ELSE <<k - 1>>

\* Commit.NumParents
NumParents(k) == Len(Parents(k))

wV10 == <<"v", "1", ".", "0">>

\* Repository.ResolveRevision: a tag, a branch or a full hash
ResolveRevision(repo, rev) ==
    IF rev = wV10 THEN [ok |-> TRUE, hash |-> Hash(1)]
    ELSE IF rev = wMain /\ repo.main THEN [ok |-> TRUE, hash |-> Hash(repo.n)]
    ELSE IF rev = wMaster /\ repo.master
         THEN [ok |-> TRUE, hash |-> Hash(Max(repo.n - 1, 1))]
    ELSE IF Len(rev) = 2 * HashBytes /\ CommitObject(repo, rev).ok
         THEN [ok |-> TRUE, hash |-> rev]
    ELSE [ok |-> FALSE, hash |-> <<>>]

---------------------------------------------------------------------------
(* Trees.  Every commit after the root has the same layout: a file, a      *)
(* directory with one file, a symbolic link and a submodule; the root      *)
(* commit has the file only.  Every commit changes the file README, so the *)
(* root trees of two commits differ.                                       *)

wReadme == <<"R","E","A","D","M","E">>
wSrc    == <<"s","r","c">>
wAppGo  == <<"a","p","p",".","g","o">>
wLink   == <<"l","n","k">>
wSub    == <<"s","u","b">>
wNone   == <<"n","o","n","e">>

\* a tree entry; Entries are the children of a directory, kept with it
Entry(name, mode, hash, entries) ==
    [Name |-> name, Mode |-> mode, Hash |-> hash, Entries |-> entries]

\* the root tree of commit k; entries are kept sorted by name
RootEntries(k) ==
    IF k = 1 THEN << Entry(wReadme, "Regular", k, <<>>) >>
    ELSE << Entry(wReadme, "Regular", k, <<>>),
            Entry(wLink, "Symlink", 0, <<>>),
            Entry(wSrc, "Dir", 0, << Entry(wAppGo, "Regular", 0, <<>>) >>),
            Entry(wSub, "Submodule", 0, <<>>) >>

\* Commit.Tree
CommitTree(repo, k) ==
    IF repo.fault = "tree" THEN [ok |-> FALSE, Entries |-> <<>>]
    ELSE [ok |-> TRUE, Entries |-> RootEntries(k)]

\* IsFile that takes every mode but a submodule's for a file's
IsFileOrDir(mode) == mode # "Submodule"

\* FileMode.IsFile
IsFile(mode) == mode \in {"Regular", "Deprecated", "Executable", "Symlink"}

\* strings.Split(s, "/")
RECURSIVE Split(_)
Split(s) ==
    IF \A i \in 1..Len(s) : s[i] # "/" THEN <<s>>
    ELSE LET i == CHOOSE j \in 1..Len(s) :
                      s[j] = "/" /\ \A l \in 1..(j - 1) : s[l] # "/"
         IN <<SubSeq(s, 1, i - 1)>> \o Split(SubSeq(s, i + 1, Len(s)))

NoEntry == [ok |-> FALSE, entry |-> Entry(<<>>, "", 0, <<>>)]

\* Tree.entry: the entry of that name among the tree's direct children
TreeEntryNamed(entries, name) ==
    IF \E i \in 1..Len(entries) : entries[i].Name = name
    THEN [ok |-> TRUE,
          entry |-> entries[CHOOSE i \in 1..Len(entries) : entries[i].Name = name]]
    ELSE NoEntry

\* Tree.FindEntry: walk the directories of the path, then look the last part up
RECURSIVE FindParts(_, _)
FindParts(entries, parts) ==
    LET e == TreeEntryNamed(entries, Head(parts)) IN
    IF Len(parts) = 1 THEN e
    ELSE IF e.ok /\ e.entry.Mode = "Dir" THEN FindParts(e.entry.Entries, Tail(parts))
    ELSE NoEntry

FindEntry(tree, path) == FindParts(tree.Entries, Split(path))

\* Tree.Tree: the subtree at path
SubTree(tree, path) ==
    LET e == FindEntry(tree, path) IN
    IF e.ok /\ e.entry.Mode = "Dir" THEN [ok |-> TRUE, Entries |-> e.entry.Entries]
    ELSE [ok |-> FALSE, Entries |-> <<>>]

\* Tree.File and File.Contents
TreeFile(tree, path) ==
    LET e == FindEntry(tree, path) IN
    IF e.ok /\ IsFile(e.entry.Mode) THEN [ok |-> TRUE, path |-> path]
    ELSE [ok |-> FALSE, path |-> <<>>]

FileContents(repo, k, file) ==
    IF repo.fault = "blob" THEN [ok |-> FALSE, text |-> <<>>]
    ELSE [ok |-> TRUE, text |-> [commit |-> k, path |-> file.path]]

---------------------------------------------------------------------------
(* References                                                              *)

AsciiOrder == <<"-", ".", "/", "0","1","2","3","4","5","6","7","8","9",
    "A","B","C","D","E","F","G","H","I","J","K","L","M",
    "N","O","P","Q","R","S","T","U","V","W","X","Y","Z",
    "a","b","c","d","e","f","g","h","i","j","k","l","m",
    "n","o","p","q","r","s","t","u","v","w","x","y","z", "~">>

Ord(c) == CHOOSE i \in 1..Len(AsciiOrder) : AsciiOrder[i] = c

\* strings.Compare(a, b) < 0
RECURSIVE StringLess(_, _)
StringLess(a, b) ==
    IF b = <<>> THEN FALSE
    ELSE IF a = <<>> THEN TRUE
    ELSE IF Head(a) # Head(b) THEN Ord(Head(a)) < Ord(Head(b))
    ELSE StringLess(Tail(a), Tail(b))

\* ReferenceByName.Less with the comparison turned round
ReferenceByNameGreater(r1, r2) == StringLess(r2.Name, r1.Name)

\* ReferenceByName.Less
ReferenceByNameLess(r1, r2) == StringLess(r1.Name, r2.Name)

\* sort.Sort(ReferenceByName(refs))
RECURSIVE SortRefs(_)
SortRefs(refs) ==
    IF refs = <<>> THEN <<>>
    ELSE LET m == CHOOSE i \in 1..Len(refs) :
                      \A j \in 1..Len(refs) : ~ReferenceByNameLess(refs[j], refs[i])
         IN <<refs[m]>> \o SortRefs([i \in 1..(Len(refs) - 1) |->
                                         IF i < m THEN refs[i] ELSE refs[i + 1]])

\* a storer.ReferenceIter: call number pos of Next gives items[pos], io.EOF
\* after the last item, or another error when pos = errAt (errAt = 0: never)
ReferenceIter(items, errAt) == [items |-> items, errAt |-> errAt]

\* the loop of ReferenceCollector at call number pos of it.Next()
RECURSIVE CollectLoop(_, _, _)
CollectLoop(iter, pos, refs) ==
    IF iter.errAt # pos /\ pos > Len(iter.items)
    THEN [refs |-> SortRefs(refs), err |-> FALSE]
    ELSE IF iter.errAt = pos
    THEN [refs |-> refs, err |-> TRUE]
    ELSE CollectLoop(iter, pos + 1, Append(refs, iter.items[pos]))

\* ReferenceCollector: drain the iterator and sort; an error other than
\* end-of-stream aborts with what was collected so far, unsorted
ReferenceCollector(iter) == CollectLoop(iter, 1, <<>>)

wRefsHeads == wRefs \o Slash \o <<"h","e","a","d","s">> \o Slash
wRefsTags  == wRefs \o Slash \o <<"t","a","g","s">> \o Slash

Ref(name, k) == [Name |-> name, Hash |-> Hash(k)]

\* the branch references in the order the store keeps them
BranchRefs(repo) ==
    (IF repo.master THEN <<Ref(wRefsHeads \o wMaster, Max(repo.n - 1, 1))>> ELSE <<>>)
    \o (IF repo.main THEN <<Ref(wRefsHeads \o wMain, repo.n)>> ELSE <<>>)

\* Repository.Branches: the iterator, or an error opening it; under the fault
\* "branchesNext" the iterator fails after its first reference
Branches(repo) ==
    [it |-> ReferenceIter(BranchRefs(repo),
                          IF repo.fault = "branchesNext"
                          THEN Min(2, Len(BranchRefs(repo)) + 1) ELSE 0),
     err |-> repo.fault = "branches"]

\* Repository.Tags; under the fault "tagsNext" the iterator fails after its
\* first reference
Tags(repo) ==
    [it |-> ReferenceIter(<<Ref(wRefsTags \o wV10, 1)>>,
                          IF repo.fault = "tagsNext" THEN 2 ELSE 0),
     err |-> repo.fault = "tags"]

ListBranches(repo) ==
    LET opened == Branches(repo) IN
    IF opened.err THEN [refs |-> <<>>, err |-> TRUE]
    ELSE ReferenceCollector(opened.it)

ListTags(repo) ==
    LET opened == Tags(repo) IN
    IF opened.err THEN [refs |-> <<>>, err |-> TRUE]
    ELSE ReferenceCollector(opened.it)

\* findMainBranch: the first of "main", "master" that resolves
RECURSIVE FindMainFrom(_, _)
FindMainFrom(repo, candidates) ==
    IF candidates = <<>> THEN [ok |-> FALSE, name |-> <<>>, hash |-> <<>>]
    ELSE LET revision == ResolveRevision(repo, Head(candidates)) IN
         IF revision.ok
         THEN [ok |-> TRUE, name |-> Head(candidates), hash |-> revision.hash]
         ELSE FindMainFrom(repo, Tail(candidates))

\* findMainBranch with the candidates in the other order
findMasterBranchFirst(repo) == FindMainFrom(repo, <<wMaster, wMain>>)

findMainBranch(repo) == FindMainFrom(repo, <<wMain, wMaster>>)

\* SmithyConfig.FindRepo: the loaded repository of that name
FindRepo(table, name) ==
    IF \E r \in table : r.Name = name
    THEN [exists |-> TRUE, repo |-> (CHOOSE r \in table : r.Name = name).Repository]
    ELSE [exists |-> FALSE, repo |-> [n |-> 0, main |-> FALSE, master |-> FALSE,
                                      fault |-> "none"]]

---------------------------------------------------------------------------
(* Responses                                                               *)

Page(status, page, data) == [status |-> status, page |-> page, data |-> data]

NoResponse == Page(0, "", <<>>)

Http404 == Page(404, "404.html", <<>>)

Http500 == Page(500, "500.html", <<>>)

\* gin's Recovery middleware (gin.Default) answers a panicking handler
Recovered == Page(500, "", <<>>)

\* GetReadmeFromCommit and the rendering of its contents: the README of the
\* commit, or nothing when it has none or it cannot be read
GetReadmeFromCommit(repo, k) ==
    LET tree == CommitTree(repo, k)
        file == TreeFile(tree, wReadme)
        contents == FileContents(repo, k, file)
    IN IF tree.ok /\ file.ok /\ contents.ok THEN <<contents.text>> ELSE <<>>

IndexView(table, urlParts) == Page(200, "index.html", [Repos |-> table])

RepoIndexView(table, urlParts) ==
    LET repoName == urlParts[1]
        found == FindRepo(table, repoName)
        repo == found.repo
        branches == ListBranches(repo)
        tags == ListTags(repo)
        main == findMainBranch(repo)
        commitObj == CommitObject(repo, main.hash)
        readme == GetReadmeFromCommit(repo, commitObj.commit)
    IN
    IF ~found.exists THEN Http404
    ELSE IF branches.err THEN Http500
    ELSE IF tags.err THEN Http500
    ELSE IF ~main.ok THEN Http500
    ELSE IF ~commitObj.ok THEN Http500
    ELSE Page(200, "repo.html",
              [RepoName |-> repoName, Branches |-> branches.refs, Tags |-> tags.refs,
               Readme |-> readme])

\* githttp serves the request; it is outside this program
RepoGitView(table, urlParts) == Page(0, "githttp", <<>>)

RefsView(table, urlParts) ==
    LET repoName == urlParts[1]
        found == FindRepo(table, repoName)
        repo == found.repo
        branches == ListBranches(repo)
        tags == ListTags(repo)
    IN
    IF ~found.exists THEN Http404
    ELSE Page(200, "refs.html",
              [RepoName |-> repoName,
               Branches |-> IF branches.err THEN <<>> ELSE branches.refs,
               Tags |-> IF tags.err THEN <<>> ELSE tags.refs])

TreeView(table, urlParts) ==
    LET repoName == urlParts[1]
        found == FindRepo(table, repoName)
        repo == found.repo
        main == findMainBranch(repo)
        refNameString == IF Len(urlParts) > 1 THEN urlParts[2] ELSE main.name
        revision == ResolveRevision(repo, refNameString)
        treePath == IF Len(urlParts) > 2 THEN urlParts[3] ELSE <<>>
        commitObj == CommitObject(repo, revision.hash)
        tree == CommitTree(repo, commitObj.commit)
        out == FindEntry(tree, treePath)
        subTree == SubTree(tree, treePath)
        file == TreeFile(tree, treePath)
        contents == FileContents(repo, commitObj.commit, file)
    IN
    IF ~found.exists THEN Http404
    ELSE IF Len(urlParts) <= 1 /\ ~main.ok THEN Http404
    ELSE IF ~revision.ok THEN Http404
    ELSE IF ~commitObj.ok THEN Http404
    ELSE IF ~tree.ok THEN Http404
    ELSE IF treePath = <<>>
         THEN Page(200, "tree.html",
                   [RepoName |-> repoName, RefName |-> refNameString,
                    Files |-> tree.Entries, Path |-> treePath])
    ELSE IF ~out.ok THEN Http404
    ELSE IF ~IsFile(out.entry.Mode)
         THEN IF ~subTree.ok THEN Http404
              ELSE Page(200, "tree.html",
                        [RepoName |-> repoName, RefName |-> refNameString,
                         SubTree |-> out.entry.Name, Path |-> treePath,
                         Files |-> subTree.Entries])
    ELSE IF ~file.ok THEN Http404
    ELSE IF ~contents.ok THEN Http404
    ELSE Page(200, "blob.html",
              [RepoName |-> repoName, RefName |-> refNameString,
               File |-> out.entry, Path |-> treePath, Contents |-> contents.text])

\* Repository.Log with LogOrderCommitterTime: the commits reachable from the
\* given one, newest committer time first.  With fault "logNext" the root
\* commit cannot be read, and the iterator fails instead of yielding it.
Log(repo, from) ==
    LET k == CommitObject(repo, from).commit
        m == IF repo.fault = "logNext" THEN k - 1 ELSE k
    IN [ok |-> repo.fault # "log",
        items |-> [i \in 1..m |-> k - i + 1],
        err |-> repo.fault = "logNext"]

\* LogLoop with the bound tested one call too early
RECURSIVE LogLoopOffByOne(_, _, _)
LogLoopOffByOne(cIter, i, commits) ==
    IF i >= PAGE_SIZE THEN [panic |-> FALSE, commits |-> commits]
    ELSE IF i > Len(cIter.items)
         THEN [panic |-> cIter.err, commits |-> commits]
    ELSE LogLoopOffByOne(cIter, i + 1, Append(commits, cIter.items[i]))

\* the loop of LogView: at most PAGE_SIZE calls of cIter.Next; end-of-history
\* breaks out, and any other error leaves commit nil, which the loop dereferences
RECURSIVE LogLoop(_, _, _)
LogLoop(cIter, i, commits) ==
    IF i > PAGE_SIZE THEN [panic |-> FALSE, commits |-> commits]
    ELSE IF i > Len(cIter.items)
         THEN [panic |-> cIter.err, commits |-> commits]
    ELSE LogLoop(cIter, i + 1, Append(commits, cIter.items[i]))

LogView(table, urlParts) ==
    LET repoName == urlParts[1]
        found == FindRepo(table, repoName)
        repo == found.repo
        refNameString == urlParts[2]
        revision == ResolveRevision(repo, refNameString)
        cIter == Log(repo, revision.hash)
        loop == LogLoop(cIter, 1, <<>>)
    IN
    IF ~found.exists THEN Http404
    ELSE IF ~revision.ok THEN Http404
    ELSE IF ~cIter.ok THEN Http500
    ELSE IF loop.panic THEN Recovered
    ELSE Page(200, "log.html",
              [RepoName |-> repoName, RefName |-> refNameString,
               Commits |-> loop.commits])

\* LogViewDefault with the redirect target built without the "/"
LogViewDefaultNoSlash(table, urlParts, requestURI) ==
    LET repoName == urlParts[1]
        found == FindRepo(table, repoName)
        main == findMainBranch(found.repo)
    IN
    IF ~found.exists THEN Http404
    ELSE IF ~main.ok THEN Http404
    ELSE Page(308, "redirect", [Location |-> requestURI \o main.name])

LogViewDefault(table, urlParts, requestURI) ==
    LET repoName == urlParts[1]
        found == FindRepo(table, repoName)
        main == findMainBranch(found.repo)
    IN
    IF ~found.exists THEN Http404
    ELSE IF ~main.ok THEN Http404
    ELSE Page(308, "redirect", [Location |-> requestURI \o Slash \o main.name])

\* Parent that takes the last parent whatever i is
ParentLast(repo, k, i) ==
    IF i < NumParents(k) /\ repo.fault # "parent"
    THEN [ok |-> TRUE, commit |-> Parents(k)[NumParents(k)]]
    ELSE [ok |-> FALSE, commit |-> 0]

\* Commit.Parent(i), i counted from 0
Parent(repo, k, i) ==
    IF i < NumParents(k) /\ repo.fault # "parent"
    THEN [ok |-> TRUE, commit |-> Parents(k)[i + 1]]
    ELSE [ok |-> FALSE, commit |-> 0]

\* GetChanges: the changes from the first parent's tree, or from the empty
\* tree (from = 0) when the first parent cannot be had
GetChanges(repo, k) ==
    LET parent == Parent(repo, k, 0)
        parentTree == CommitTree(repo, parent.commit)
        currentTree == CommitTree(repo, k)
    IN
    IF parent.ok /\ ~parentTree.ok THEN [ok |-> FALSE, from |-> 0, to |-> 0]
    ELSE IF ~currentTree.ok THEN [ok |-> FALSE, from |-> 0, to |-> 0]
    ELSE IF repo.fault = "diff" THEN [ok |-> FALSE, from |-> 0, to |-> 0]
    ELSE [ok |-> TRUE, from |-> IF parent.ok THEN parent.commit ELSE 0, to |-> k]

\* FormatChanges: one unified diff per change
FormatChanges(repo, changes) ==
    IF repo.fault \in {"format", "blob"} THEN [ok |-> FALSE, text |-> <<>>]
    ELSE [ok |-> TRUE, text |-> [kind |-> "diff", from |-> changes.from, to |-> changes.to]]

\* Commit.Patch: the patch from one commit's tree to the other's; it reads
\* both trees and the blobs that differ
CommitPatch(repo, from, to) ==
    IF repo.fault \in {"diff", "tree", "blob"} THEN [ok |-> FALSE, text |-> <<>>]
    ELSE [ok |-> TRUE, text |-> [kind |-> "patch", from |-> from, to |-> to]]

\* Commit.Stats: the diffstat against the first parent (go-git's choice), or
\* against the empty tree (from = 0) for a root commit
CommitStats(repo, k) ==
    IF repo.fault \in {"stats", "diff", "tree", "blob"} THEN [ok |-> FALSE, text |-> <<>>]
    ELSE [ok |-> TRUE,
          text |-> [kind |-> "stats",
                    from |-> IF NumParents(k) = 0 THEN 0 ELSE Parents(k)[1],
                    to |-> k]]

PatchView(table, urlParts) ==
    LET repoName == urlParts[1]
        found == FindRepo(table, repoName)
        repo == found.repo
        commitID == urlParts[2]
        commitHash == NewHash(commitID)
        commitObj == CommitObject(repo, commitHash)
        k == commitObj.commit
        parentCommit == Parent(repo, k, 0)
        patchObj == CommitPatch(repo, parentCommit.commit, k)
        stats == CommitStats(repo, k)
    IN
    IF ~found.exists THEN Http404
    ELSE IF commitID = <<>> THEN Http404
    ELSE IF ~commitObj.ok THEN Http404
    ELSE IF NumParents(k) = 0 THEN Http500
    ELSE IF ~parentCommit.ok THEN Http500
    ELSE IF ~patchObj.ok THEN Http500
    ELSE IF ~stats.ok THEN Http500
    ELSE Page(200, "text",
              [Body |-> << [kind |-> "From ", commit |-> k],
                           [kind |-> "From: ", commit |-> k],
                           [kind |-> "Date: ", commit |-> k],
                           [kind |-> "Subject: [PATCH] ", commit |-> k],
                           [kind |-> "---"],
                           stats.text, patchObj.text >>])

CommitView(table, urlParts) ==
    LET repoName == urlParts[1]
        found == FindRepo(table, repoName)
        repo == found.repo
        commitID == urlParts[2]
        commitHash == NewHash(commitID)
        commitObj == CommitObject(repo, commitHash)
        changes == GetChanges(repo, commitObj.commit)
        formattedChanges == FormatChanges(repo, changes)
    IN
    IF ~found.exists THEN Http404
    ELSE IF commitID = <<>> THEN Http404
    ELSE IF ~commitObj.ok THEN Http404
    ELSE IF ~changes.ok THEN Http404
    ELSE IF ~formattedChanges.ok THEN Http404
    ELSE Page(200, "commit.html",
              [RepoName |-> repoName, Commit |-> commitObj.commit,
               Changes |-> formattedChanges.text])

\* route.View(ctx, urlParts)
View(name, table, urlParts, requestURI) ==
    CASE name = "IndexView"      -> IndexView(table, urlParts)
      [] name = "RepoIndexView"  -> RepoIndexView(table, urlParts)
      [] name = "RepoGitView"    -> RepoGitView(table, urlParts)
      [] name = "RefsView"       -> RefsView(table, urlParts)
      [] name = "LogViewDefault" -> LogViewDefault(table, urlParts, requestURI)
      [] name = "LogView"        -> LogView(table, urlParts)
      [] name = "CommitView"     -> CommitView(table, urlParts)
      [] name = "PatchView"      -> PatchView(table, urlParts)
      [] name = "TreeView"       -> TreeView(table, urlParts)

---------------------------------------------------------------------------
(* Dispatch                                                                *)

StaticPrefix == Slash \o wStatic \o Slash

\* a call of a view: the index of the route that selected it, and its arguments
Call(route, view, urlParts) == [route |-> route, view |-> view, urlParts |-> urlParts]

\* UrlParts without the test that leaves index 0 out
UrlPartsWithWholeMatch(submatch) == submatch

\* the capture groups of the match, the whole match (index 0) left out
UrlParts(submatch) == [j \in 1..(Len(submatch) - 1) |-> submatch[j + 1]]

\* DispatchLoop without the return after the call of the view: every route
\* that matches is called
RECURSIVE DispatchLoopNoReturn(_, _, _)
DispatchLoopNoReturn(routes, i, path) ==
    IF i > Len(routes) THEN <<>>
    ELSE IF ~MatchString(routes[i].Pattern, path)
         THEN DispatchLoopNoReturn(routes, i + 1, path)
    ELSE << Call(i, routes[i].View,
                 UrlParts(FindStringSubmatch(routes[i].Pattern, path))) >>
         \o DispatchLoopNoReturn(routes, i + 1, path)

\* the loop of Dispatch over the routes from index i on: the first route that
\* matches is called, and the loop returns
RECURSIVE DispatchLoop(_, _, _)
DispatchLoop(routes, i, path) ==
    IF i > Len(routes) THEN <<>>
    ELSE IF ~MatchString(routes[i].Pattern, path)
         THEN DispatchLoop(routes, i + 1, path)
    ELSE << Call(i, routes[i].View,
                 UrlParts(FindStringSubmatch(routes[i].Pattern, path))) >>

\* Dispatch: the views called for the path and the response written
Dispatch(table, routes, path) ==
    IF HasPrefix(path, StaticPrefix)
    THEN [calls |-> <<>>, response |-> Page(0, "static", <<>>)]
    ELSE LET cs == DispatchLoop(routes, 1, path) IN
         IF cs = <<>> THEN [calls |-> cs, response |-> Http404]
         ELSE [calls |-> cs,
               response |-> View(cs[1].view, table, cs[1].urlParts, path)]

---------------------------------------------------------------------------
(* The requests a client sends                                             *)

wR1 == <<"r", "1">>
wR2 == <<"r", "2">>
wDev == <<"d", "e", "v">>
wDotDot == <<".", ".">>
wDotPatch == <<".">> \o wPatch

\* the names a loaded repository may have
LoadedNames == {wR1, wGit}

Repositories ==
    [n : HistoryLens, main : BOOLEAN, master : BOOLEAN, fault : Faults]

\* the repository tables of the view specification: one loaded repository
Tables ==
    { {[Name |-> nm, Repository |-> r]} : nm \in LoadedNames, r \in Repositories }

\* the repository tables of the routing specification: a sound repository
\* under any of the names
RouteTables ==
    { {[Name |-> nm,
        Repository |-> [n |-> 4, main |-> mn, master |-> TRUE, fault |-> "none"]]} :
      nm \in LoadedNames \cup {wStatic}, mn \in {TRUE} }

RepoSegs == {wR1, wR2, wGit}
RefSegs == {wMain, wMaster, wV10, wDev, Hash(2)}
TreePaths == {<<>>, wReadme, wSrc, wSrc \o Slash \o wAppGo, wSrc \o Slash,
              wLink, wSub, wNone, wReadme \o Slash \o wNone}
CommitSegs == {Hash(k) : k \in 1..5} \cup {<<"0", "0">>, Hash(3) \o <<"f", "f">>}

\* the requests of the view specification: the paths of the route table
ViewPaths ==
    {Slash}
    \cup {Slash \o r : r \in RepoSegs}
    \cup {JoinPath(<<r, w>>) : r \in RepoSegs, w \in {wRefs, wLog, wTree}}
    \cup {JoinPath(<<r, w, ref>>) : r \in RepoSegs, w \in {wLog, wTree}, ref \in RefSegs}
    \cup {JoinPath(<<r, wTree, ref>>) \o Slash \o p :
             r \in RepoSegs, ref \in {wMain, wV10, wDev}, p \in TreePaths}
    \cup {JoinPath(<<r, wCommit, c>>) : r \in RepoSegs, c \in CommitSegs}
    \cup {JoinPath(<<r, wCommit, c \o wDotPatch>>) : r \in RepoSegs, c \in CommitSegs}

\* the path segments of the routing specification: route words, names in and
\* out of the label class, and near misses of the commit and patch forms
Atoms == {<<>>, wR1, wGit, wStatic, wRefs, wLog, wTree, wCommit, wMain,
          wDotDot, <<"r", ";", "1">>, <<"R", "~", "-", ".">>,
          Hash(2), Hash(2) \o wDotPatch, Hash(2) \o <<"-">> \o wPatch,
          Hash(2) \o wDotPatch \o <<"x">>}

Tails == {<<>>, Slash, Slash \o wSrc \o Slash \o wAppGo}

RoutePaths ==
    {Slash}
    \cup {JoinPath(<<a>>) : a \in Atoms}
    \cup {JoinPath(<<a, b>>) : a \in Atoms, b \in Atoms}
    \cup {JoinPath(<<a, b, c>>) \o t : a \in Atoms, b \in Atoms, c \in Atoms, t \in Tails}

---------------------------------------------------------------------------
(* The state machine                                                       *)

TypeOK ==
    /\ pc \in {"idle", "responded"}
    /\ response.status \in {0, 200, 308, 404, 500}

\* no iterator of the program's own is followed apart from the requests
NoIter == ReferenceIter(<<>>, 0)

\* ReferenceCollector was not called
NotCollected == [refs |-> <<>>, err |-> FALSE, called |-> FALSE]

Init ==
    /\ repos \in Tables
    /\ pc = "idle"
    /\ urlPath = <<>>
    /\ calls = <<>>
    /\ response = NoResponse
    /\ referer = <<>>
    /\ it = NoIter
    /\ collected = NotCollected

InitRoute ==
    /\ repos \in RouteTables
    /\ pc = "idle"
    /\ urlPath = <<>>
    /\ calls = <<>>
    /\ response = NoResponse
    /\ referer = <<>>
    /\ it = NoIter
    /\ collected = NotCollected

\* the catch-all handler of main: Dispatch answers the request
Handle(path, from) ==
    \E d \in {Dispatch(repos, CompileRoutes, path)} :
    /\ pc' = "responded"
    /\ urlPath' = path
    /\ calls' = d.calls
    /\ response' = d.response
    /\ referer' = from
    /\ UNCHANGED <<repos, it, collected>>

\* a client sends a request for one of the paths
Request(paths) ==
    /\ pc = "idle"
    /\ \E path \in paths : Handle(path, <<>>)

\* the client follows the redirect it was answered with
FollowRedirect ==
    /\ pc = "responded"
    /\ response.status = 308
    /\ Handle(response.data.Location, urlPath)

\* the exchange is over; the server keeps nothing of it
Close ==
    /\ pc = "responded"
    /\ pc' = "idle"
    /\ urlPath' = <<>>
    /\ calls' = <<>>
    /\ response' = NoResponse
    /\ referer' = <<>>
    /\ UNCHANGED <<repos, it, collected>>

Next ==
    \/ Request(ViewPaths)
    \/ FollowRedirect
    \/ Close

NextRoute ==
    \/ Request(RoutePaths)
    \/ FollowRedirect
    \/ Close

\* the most references an iterator holds
MaxRefs == 3

\* the faults of the reference store
RefFaults == {"none", "branches", "tags", "branchesNext", "tagsNext"}

\* the repository tables of the reference specification
RefTables ==
    { {[Name |-> wR1,
        Repository |-> [n |-> 4, main |-> TRUE, master |-> ms, fault |-> f]]} :
      ms \in BOOLEAN, f \in RefFaults }

\* full reference names, of branches and of a tag
RefNames ==
    { wRefsHeads \o wMain, wRefsHeads \o wMaster, wRefsHeads \o <<"Z">>,
      wRefsHeads \o wDev, wRefsTags \o wV10 }

\* the references of a store in any order: no name occurs twice
RefLists ==
    UNION { { l \in [1..k -> RefNames] : \A i, j \in 1..k : l[i] = l[j] => i = j } :
            k \in 0..MaxRefs }

\* the iterators over them, failing at no call of Next or at one of them
Iterators ==
    { ReferenceIter([i \in 1..Len(l) |-> Ref(l[i], i)], e) :
      l \in RefLists, e \in 0..(MaxRefs + 1) }

\* the requests that list references
RefPaths ==
    { Slash \o wR1, Slash \o wR1 \o Slash \o wRefs, Slash \o wR2 \o Slash \o wRefs }

InitRefs ==
    /\ repos \in RefTables
    /\ pc = "idle"
    /\ urlPath = <<>>
    /\ calls = <<>>
    /\ response = NoResponse
    /\ referer = <<>>
    /\ it \in Iterators
    /\ collected = NotCollected

\* ReferenceCollector is called with the iterator
Collect ==
    /\ pc = "idle"
    /\ ~collected.called
    /\ \E r \in {ReferenceCollector(it)} :
           collected' = [refs |-> r.refs, err |-> r.err, called |-> TRUE]
    /\ UNCHANGED <<repos, pc, urlPath, calls, response, referer, it>>

NextRefs ==
    \/ Collect
    \/ Request(RefPaths)
    \/ Close

Spec == Init /\ [][Next]_vars

SpecRefs == InitRefs /\ [][NextRefs]_vars

SpecRoute == InitRoute /\ [][NextRoute]_vars

---------------------------------------------------------------------------
(* The route forms of the HTTP surface, stated on the path's segments      *)

IsLabel(seg) ==
    /\ seg # <<>>
    /\ \A i \in 1..Len(seg) : seg[i] \in Lower \cup Upper \cup Digit \cup {"-", "~", "."}

IsLowerAlnum(seg) ==
    /\ seg # <<>>
    /\ \A i \in 1..Len(seg) : seg[i] \in Lower \cup Digit

\* the text of the path after its first n segments and their slashes
RECURSIVE AfterSegments(_, _)
AfterSegments(path, n) ==
    IF n = 0 THEN path
    ELSE LET i == CHOOSE j \in 2..Len(path) :
                      path[j] = "/" /\ \A l \in 2..(j - 1) : path[l] # "/"
         IN AfterSegments(SubSeq(path, i, Len(path)), n - 1)

\* the path is exactly of the form the HTTP surface gives for route i
RouteForm(i, path) ==
    LET segs == Split(path)
        n == Len(segs)
    IN
    /\ segs[1] = <<>>
    /\ CASE i = 1  -> path = Slash
         [] i = 2  -> n = 2 /\ IsLabel(segs[2])
         [] i = 3  -> n = 3 /\ segs[2] = wGit /\ IsLabel(segs[3])
         [] i = 4  -> n = 3 /\ IsLabel(segs[2]) /\ segs[3] = wRefs
         [] i = 5  -> n = 3 /\ IsLabel(segs[2]) /\ segs[3] = wLog
         [] i = 6  -> n = 4 /\ IsLabel(segs[2]) /\ segs[3] = wLog /\ IsLabel(segs[4])
         [] i = 7  -> n = 4 /\ IsLabel(segs[2]) /\ segs[3] = wCommit
                            /\ IsLowerAlnum(segs[4])
         [] i = 8  -> /\ n = 4 /\ IsLabel(segs[2]) /\ segs[3] = wCommit
                      /\ Len(segs[4]) > Len(wDotPatch)
                      /\ IsLowerAlnum(SubSeq(segs[4], 1, Len(segs[4]) - Len(wDotPatch)))
                      /\ SubSeq(segs[4], Len(segs[4]) - Len(wDotPatch) + 1, Len(segs[4]))
                            = wDotPatch
         [] i = 9  -> n = 3 /\ IsLabel(segs[2]) /\ segs[3] = wTree
         [] i = 10 -> n = 4 /\ IsLabel(segs[2]) /\ segs[3] = wTree /\ IsLabel(segs[4])
         [] i = 11 -> n >= 5 /\ IsLabel(segs[2]) /\ segs[3] = wTree /\ IsLabel(segs[4])

\* the request does not go to the static file server
Routed == pc = "responded" /\ ~HasPrefix(urlPath, StaticPrefix)

\* the indexes of the routes whose pattern matches the request path
Matching ==
    {i \in 1..Len(CompileRoutes) : MatchString(CompileRoutes[i].Pattern, urlPath)}

---------------------------------------------------------------------------
(* C1: for a path outside the static prefix, Dispatch invokes exactly one  *)
(* outcome: the view of the lowest-index route whose pattern matches the   *)
(* path and no view of a later route, or the not-found page when no route  *)
(* matches.                                                                *)
C1_FirstMatchWins ==
    Routed =>
        IF Matching = {}
        THEN calls = <<>> /\ response = Http404
        ELSE /\ Len(calls) = 1
             /\ calls[1].route \in Matching
             /\ \A j \in Matching : calls[1].route <= j
             /\ calls[1].view = CompileRoutes[calls[1].route].View
             /\ response = View(calls[1].view, repos, calls[1].urlParts, urlPath)

\* C1: a path that two routes match was answered by the earlier one
C1_Witness ==
    /\ Routed
    /\ Cardinality(Matching) >= 2
    /\ Len(calls) = 1
    /\ calls[1].view = "RepoGitView"
    /\ \E j \in Matching : j > calls[1].route /\ CompileRoutes[j].View = "RefsView"

(* C2: a route is selected only when the whole request path is of the      *)
(* route's form: a route form followed by more characters, or with another *)
(* character in the place of a literal one, is not dispatched to that      *)
(* route's view.                                                           *)
C2_FullPathMatch ==
    (Routed /\ calls # <<>>) => RouteForm(calls[1].route, urlPath)

(* C3: a path /{repo}/tree/{ref}/{path}, {path} with or without slashes,   *)
(* is dispatched to the three-segment tree route with the parts            *)
(* [repo, ref, path]; /{repo}/tree/{ref} to the two-segment route with     *)
(* [repo, ref]; /{repo}/tree to the one-segment route with [repo].  Here   *)
(* {repo} is any label other than the reserved "git" and "static".         *)
C3_TreeParts ==
    Routed =>
        LET segs == Split(urlPath) IN
        /\ (RouteForm(11, urlPath) /\ segs[2] # wGit) =>
               calls = << Call(11, "TreeView",
                               <<segs[2], segs[4], Tail(AfterSegments(urlPath, 3))>>) >>
        /\ (RouteForm(10, urlPath) /\ segs[2] # wGit) =>
               calls = << Call(10, "TreeView", <<segs[2], segs[4]>>) >>
        /\ (RouteForm(9, urlPath) /\ segs[2] # wGit) =>
               calls = << Call(9, "TreeView", <<segs[2]>>) >>

\* C3: a tree path with slashes in {path} was dispatched
C3_Witness ==
    /\ pc = "responded"
    /\ urlPath = JoinPath(<<wR1, wTree, wMain, wSrc, wAppGo>>)
    /\ calls = << Call(11, "TreeView", <<wR1, wMain, wSrc \o Slash \o wAppGo>>) >>

\* C3 as claimed, for every label {repo}
C3_TreePartsAnyRepo ==
    pc = "responded" =>
        LET segs == Split(urlPath) IN
        /\ RouteForm(11, urlPath) =>
               calls = << Call(11, "TreeView",
                               <<segs[2], segs[4], Tail(AfterSegments(urlPath, 3))>>) >>
        /\ RouteForm(10, urlPath) =>
               calls = << Call(10, "TreeView", <<segs[2], segs[4]>>) >>
        /\ RouteForm(9, urlPath) =>
               calls = << Call(9, "TreeView", <<segs[2]>>) >>


\* a segment no repository or ref name may be: a path-traversal segment, or one
\* with a character outside the label class
BadLabel(seg) ==
    \/ seg \in {<<".">>, wDotDot}
    \/ \E i \in 1..Len(seg) : seg[i] \notin LabelChars

\* the repository-name segment (the first, or the one after /git/) or the
\* ref-name segment (the one after /log/ or /tree/) of the path is a bad label
BadNameSegment(path) ==
    LET segs == Split(path)
        n == Len(segs)
    IN
    /\ n >= 2
    /\ \/ BadLabel(segs[2])
       \/ n >= 3 /\ segs[2] = wGit /\ BadLabel(segs[3])
       \/ n >= 4 /\ segs[3] \in {wLog, wTree} /\ BadLabel(segs[4])

(* C9: a request whose repository-name or ref-name segment is a            *)
(* path-traversal segment or has a character outside the label class is    *)
(* rejected by Dispatch itself: no view is invoked and the answer is the   *)
(* not-found page.                                                         *)
C9_BadLabelsRejected ==
    (Routed /\ BadNameSegment(urlPath)) => (calls = <<>> /\ response = Http404)

---------------------------------------------------------------------------
(* The views' claims                                                       *)

\* the view Dispatch called for the request
Called(view) == pc = "responded" /\ calls # <<>> /\ calls[1].view = view

\* the loaded repository the called view was given the name of
Found == FindRepo(repos, calls[1].urlParts[1])

\* the number of the commit a hash names
CommitOf(hash) == HashValue(hash, Len(hash))

\* the names a repository cannot be reached under: the git transport and the
\* static files own the paths below them
Reserved == {wGit, wStatic}

DefaultBranch(repo) == IF repo.main THEN wMain ELSE wMaster

\* the log scenario for the loaded repositories of the given names that have
\* a default branch
LogScenario(names) ==
    pc = "responded" =>
        \A r \in {x \in repos : /\ x.Name \in names
                                /\ x.Repository.main \/ x.Repository.master} :
            LET repo == r.Repository
                D == DefaultBranch(repo)
                logPath == JoinPath(<<r.Name, wLog>>)
                segs == Split(urlPath)
            IN
            /\ urlPath = logPath =>
                   /\ calls = << Call(5, "LogViewDefault", <<r.Name>>) >>
                   /\ response = Page(308, "redirect", [Location |-> logPath \o Slash \o D])
            /\ referer = logPath =>
                   /\ urlPath = JoinPath(<<r.Name, wLog, D>>)
                   /\ calls = << Call(6, "LogView", <<r.Name, D>>) >>
                   /\ response.status # 308
            /\ (RouteForm(6, urlPath) /\ segs[2] = r.Name) =>
                   /\ calls = << Call(6, "LogView", <<r.Name, segs[4]>>) >>
                   /\ response.status # 308

(* C4: for a loaded repository with default branch D (main, else master),  *)
(* /{repo}/log is dispatched to the log-default view, which answers with a *)
(* permanent redirect to /{repo}/log/D; the request for the redirect       *)
(* target is dispatched to the log view with [repo, D] and is not          *)
(* redirected again; /{repo}/log/{ref} is dispatched to the log view and   *)
(* is never redirected.  Here the repository is not named "git" or         *)
(* "static".                                                               *)
C4_LogRedirect == LogScenario({r.Name : r \in repos} \ Reserved)

\* C4: the redirect of /r1/log was followed to the log of "master"
C4_Witness ==
    /\ pc = "responded"
    /\ referer = JoinPath(<<wR1, wLog>>)
    /\ calls = << Call(6, "LogView", <<wR1, wMaster>>) >>
    /\ response.status = 200
    /\ response.data.RefName = wMaster

\* C4 as claimed, for any loaded repository
C4_LogRedirectAnyRepo == LogScenario({r.Name : r \in repos})

(* C5: for a ref that resolves to a commit with N commits reachable from   *)
(* it, the log view answers with a success page that lists exactly         *)
(* min(N, PAGE_SIZE) commits, newest committer time first; the end of the  *)
(* history before PAGE_SIZE commits is no error.  (The commit iterator     *)
(* opens and yields the N commits.)                                        *)
C5_LogPage ==
    Called("LogView") =>
        LET repo == Found.repo
            revision == ResolveRevision(repo, calls[1].urlParts[2])
            N == CommitOf(revision.hash)
        IN
        (Found.exists /\ revision.ok /\ repo.fault \notin {"log", "logNext"}) =>
            /\ response.status = 200
            /\ response.page = "log.html"
            /\ Len(response.data.Commits) = Min(N, PAGE_SIZE)
            /\ \A i \in 1..Len(response.data.Commits) :
                   response.data.Commits[i] = N - i + 1

\* C5: the longest history was cut to one page
C5_Witness ==
    /\ Called("LogView")
    /\ response.page = "log.html"
    /\ Len(response.data.Commits) = PAGE_SIZE
    /\ CommitOf(ResolveRevision(Found.repo, calls[1].urlParts[2]).hash) = MaxCommits

\* the patch view was called for a commit of a loaded repository
PatchOfCommit ==
    /\ Called("PatchView")
    /\ Found.exists
    /\ CommitObject(Found.repo, NewHash(calls[1].urlParts[2])).ok

\* the mailbox patch of commit k against commit from
PatchPage(k, from) ==
    Page(200, "text",
         [Body |-> << [kind |-> "From ", commit |-> k],
                      [kind |-> "From: ", commit |-> k],
                      [kind |-> "Date: ", commit |-> k],
                      [kind |-> "Subject: [PATCH] ", commit |-> k],
                      [kind |-> "---"],
                      [kind |-> "stats", from |-> from, to |-> k],
                      [kind |-> "patch", from |-> from, to |-> k] >>])

(* C6: patch rendering of a commit of a loaded repository fails when the   *)
(* commit has no parent, and when reading the first parent, computing the  *)
(* patch or computing the diffstat fails; every failure is the             *)
(* server-error page, never the not-found page; in every other case it     *)
(* succeeds with the header block, the --- line, the diffstat and the      *)
(* diff against the first parent, for merge commits too.                   *)
C6_PatchOutcome ==
    PatchOfCommit =>
        LET repo == Found.repo
            k == CommitOf(NewHash(calls[1].urlParts[2]))
            fails == \/ NumParents(k) = 0
                     \/ repo.fault \in {"parent", "diff", "tree", "blob", "stats"}
        IN
        /\ fails => response = Http500
        /\ ~fails => response = PatchPage(k, Parents(k)[1])

\* C6: the patch of a merge commit whose first parent is not its newest
C6_Witness ==
    /\ PatchOfCommit
    /\ CommitOf(NewHash(calls[1].urlParts[2])) = 4
    /\ response = PatchPage(4, 2)

\* C6 as claimed: patch rendering fails exactly when the commit has no parent
C6_PatchFailsOnlyForRoot ==
    PatchOfCommit =>
        LET k == CommitOf(NewHash(calls[1].urlParts[2])) IN
        /\ NumParents(k) = 0 => response = Http500
        /\ NumParents(k) > 0 => response = PatchPage(k, Parents(k)[1])

\* the tree view was called without a ref for a loaded repository
TreeOfDefault ==
    /\ Called("TreeView")
    /\ Len(calls[1].urlParts) = 1
    /\ Found.exists

\* the root listing of commit k under the ref name
RootPage(repoName, refName, k) ==
    Page(200, "tree.html",
         [RepoName |-> repoName, RefName |-> refName,
          Files |-> RootEntries(k), Path |-> <<>>])

(* C7: without a revision, the default-branch policy gives the commit of   *)
(* "main" whenever "main" resolves, also when "master" exists; the commit  *)
(* of "master" only when "main" does not resolve and "master" does; and a  *)
(* failure when neither resolves.  With "main" present the empty revision  *)
(* and "main" give the same commit.                                        *)
C7_DefaultBranch ==
    TreeOfDefault =>
        LET repo == Found.repo
            name == calls[1].urlParts[1]
        IN
        /\ repo.main => response = TreeView(repos, <<name, wMain>>)
        /\ (repo.main /\ repo.fault # "tree") =>
               response = RootPage(name, wMain, repo.n)
        /\ (~repo.main /\ repo.master /\ repo.fault # "tree") =>
               response = RootPage(name, wMaster, Max(repo.n - 1, 1))
        /\ (~repo.main /\ ~repo.master) => response = Http404

\* C7: "main" and "master" point at different commits, and "main" was taken
C7_Witness ==
    /\ TreeOfDefault
    /\ Found.repo.main /\ Found.repo.master /\ Found.repo.n = 4
    /\ response = RootPage(calls[1].urlParts[1], wMain, 4)


\* the views that answer with the two failure pages
Handlers == {"RepoIndexView", "RefsView", "TreeView", "LogView", "LogViewDefault",
             "CommitView", "PatchView"}

\* the commit the called view works on: the one its ref or hash names, or the
\* default branch's; 0 if there is none
TargetCommit ==
    LET c == calls[1]
        repo == Found.repo
    IN
    IF c.view \in {"CommitView", "PatchView"}
    THEN CommitObject(repo, NewHash(c.urlParts[2])).commit
    ELSE IF c.view \in {"LogView", "TreeView"} /\ Len(c.urlParts) >= 2
    THEN CommitOf(ResolveRevision(repo, c.urlParts[2]).hash)
    ELSE IF repo.main THEN repo.n
    ELSE IF repo.master THEN Max(repo.n - 1, 1)
    ELSE 0

\* the path the tree view was asked for
TargetPath == IF Len(calls[1].urlParts) > 2 THEN calls[1].urlParts[3] ELSE <<>>

\* the entry of the target commit's tree at the target path
TargetEntry == FindEntry([Entries |-> RootEntries(TargetCommit)], TargetPath)

\* an operation on the object store that the called view needs fails
InternalFailure ==
    LET c == calls[1]
        fault == Found.repo.fault
    IN
    CASE c.view \in {"RepoIndexView", "RefsView"} ->
             fault \in {"branches", "tags", "branchesNext", "tagsNext"}
      [] c.view = "TreeView" ->
             \/ fault = "tree"
             \/ fault = "blob" /\ TargetPath # <<>> /\ TargetEntry.ok
                               /\ IsFile(TargetEntry.entry.Mode)
      [] c.view = "LogView" ->
             \/ fault = "log"
             \/ fault = "logNext" /\ TargetCommit <= PAGE_SIZE
      [] c.view = "LogViewDefault" -> FALSE
      [] c.view = "CommitView" ->
             \/ fault \in {"tree", "diff", "format", "blob"}
             \/ fault = "parent" /\ NumParents(TargetCommit) > 0
      [] c.view = "PatchView" ->
             /\ NumParents(TargetCommit) > 0
             /\ fault \in {"parent", "diff", "tree", "blob", "stats"}

\* the request names something that is not there: the repository, the ref (or
\* a default branch when no ref is given), the commit, or the path
Unresolvable ==
    LET c == calls[1] IN
    \/ ~Found.exists
    \/ /\ c.view # "RefsView" /\ TargetCommit < 1
       /\ ~(c.view = "RepoIndexView" /\ InternalFailure)
    \/ /\ c.view = "TreeView" /\ TargetPath # <<>> /\ Found.repo.fault # "tree"
       /\ ~TargetEntry.ok

(* C8: in every view the failure page follows from the failure class       *)
(* alone: a repository name, ref (or missing default branch), path or      *)
(* commit hash that does not resolve gives the not-found page, and an      *)
(* internal failure (unreadable tree, reference or commit iterator error,  *)
(* diff failure) gives the server-error page; no internal failure is       *)
(* answered with 404 or 200, and no resolution failure with 500.           *)
C8_FailureClasses ==
    (pc = "responded" /\ calls # <<>> /\ calls[1].view \in Handlers) =>
        /\ Unresolvable => response = Http404
        /\ (~Unresolvable /\ InternalFailure) => response = Http500

\* the tree view was called for a commit of a loaded repository
TreeOfCommit ==
    /\ Called("TreeView")
    /\ Found.exists
    /\ TargetCommit >= 1

\* what the tree view answered with
IsRootListing ==
    /\ response.status = 200 /\ response.page = "tree.html"
    /\ DOMAIN response.data = {"RepoName", "RefName", "Files", "Path"}
    /\ response.data.Path = <<>>
IsDirectoryListing ==
    /\ response.status = 200 /\ response.page = "tree.html"
    /\ DOMAIN response.data = {"RepoName", "RefName", "SubTree", "Files", "Path"}
IsFileView ==
    /\ response.status = 200 /\ response.page = "blob.html"
    /\ DOMAIN response.data = {"RepoName", "RefName", "File", "Path", "Contents"}
IsNotFound == response = Http404

\* the outcome of tree navigation, given whether the root tree must be readable
\* for the empty path to give the root listing
Navigation(readable) ==
    TreeOfCommit =>
        LET e == TargetEntry IN
        /\ Cardinality({o \in {"root", "dir", "file", "404"} :
                \/ o = "root" /\ IsRootListing
                \/ o = "dir" /\ IsDirectoryListing
                \/ o = "file" /\ IsFileView
                \/ o = "404" /\ IsNotFound}) = 1
        /\ (TargetPath = <<>> /\ readable) =>
               IsRootListing /\ response.data.Files = RootEntries(TargetCommit)
        /\ (TargetPath # <<>> /\ ~e.ok) => IsNotFound
        /\ (TargetPath # <<>> /\ e.ok /\ e.entry.Mode = "Regular") =>
               ~IsDirectoryListing /\ ~IsRootListing
        /\ (TargetPath # <<>> /\ e.ok /\ e.entry.Mode \in {"Dir", "Submodule"}) =>
               ~IsFileView
        /\ (TargetPath # <<>> /\ e.ok /\ e.entry.Mode = "Dir" /\ IsDirectoryListing) =>
               response.data.Files = e.entry.Entries

---------------------------------------------------------------------------
(* Reference collection                                                    *)

\* name a is not after name b in plain string comparison: equal, a proper
\* prefix, or smaller at the first character in which they differ
NotAfter(a, b) ==
    \/ a = b
    \/ Len(a) < Len(b) /\ a = SubSeq(b, 1, Len(a))
    \/ \E i \in 1..Min(Len(a), Len(b)) :
           /\ SubSeq(a, 1, i - 1) = SubSeq(b, 1, i - 1)
           /\ Ord(a[i]) < Ord(b[i])

\* how often a reference occurs in a list
Occurrences(refs, x) == Cardinality({i \in 1..Len(refs) : refs[i] = x})

\* one list is a permutation of the other
IsPermutation(a, b) ==
    /\ Len(a) = Len(b)
    /\ \A i \in 1..Len(b) : Occurrences(a, b[i]) = Occurrences(b, b[i])

\* the list is in non-decreasing order of the full reference names
IsSortedByName(refs) ==
    \A i, j \in 1..Len(refs) : i < j => NotAfter(refs[i].Name, refs[j].Name)

\* a call of Next fails with an error other than end-of-stream
IterFails(iter) == iter.errAt \in 1..(Len(iter.items) + 1)

\* a view that lists references was called for a loaded repository
ListingOf(view) == Called(view) /\ Found.exists

C11_AbortReached ==
    /\ collected.called /\ IterFails(it) /\ it.errAt > 1
    /\ ListingOf("RefsView") /\ Found.repo.fault = "branchesNext"

=============================================================================
